---- MODULE Spec2Model ----
(***************************************************************************)
(* Model of the download-task orchestration of app.py: the task store      *)
(* (download_tasks guarded by tasks_lock), the dispatcher                   *)
(* (start_download_route), the runner (run_download_task), the progress     *)
(* hook (ProgressHook.__call__) and the progress stream (event_stream).     *)
(*                                                                          *)
(* Conventions.  Python None is the string None; a key that a callback      *)
(* payload does not carry is Missing (strings) or MissingInt (numbers); a   *)
(* numeric payload value that is None is NoneInt.  A percentage is kept in  *)
(* tenths of a percent (1000 = 100%), the resolution round(x, 1) leaves.    *)
(***************************************************************************)
EXTENDS Integers, Sequences, FiniteSets, TLC

VARIABLES
    download_tasks,  \* the dict download_tasks: task id -> task record
    runner,          \* the run_download_task thread of each task: its position and locals
    stream,          \* the event_stream generator of a connection to /api/stream
    last,            \* the operation that made the last step, and its request/response
    tasks_lock,      \* threading.Lock(): 0 when free, else the thread that holds it
    threads          \* threads that update one task statement by statement (SpecLock)

lockvars == <<tasks_lock, threads>>
vars == <<download_tasks, runner, stream, last, tasks_lock, threads>>

----------------------------------------------------------------------------
\* Bounds of the model

MaxTasks == 2        \* task ids uuid4 can hand out
MaxBytes == 2        \* byte counts a callback reports are 0..MaxBytes
MaxThreads == 2      \* threads that update one task at the same time (SpecLock)

TaskIds == 1..MaxTasks

----------------------------------------------------------------------------
\* Values

None == "None"
Missing == "Missing"
NoneInt == -1
MissingInt == -2

Falsy(s) == s \in {None, Missing, ""}          \* `not s` for a string or None
FalsyInt(n) == n \in {NoneInt, MissingInt, 0}  \* `not n` for a number or None

TerminalStatuses == {"finished", "error"}

\* os.path.basename over the file names of the model
BaseName(f) ==
    CASE f = "/srv/downloads/clip.mp4" -> "clip.mp4"
      [] f = "/srv/downloads/video [id].f137.mp4" -> "video [id].f137.mp4"
      [] OTHER -> f

\* mutant of FileUrl: the full name instead of its basename after the prefix
FileUrlFullName(f) ==
    CASE f = "clip.mp4" -> "/api/files//srv/downloads/clip.mp4"
      [] OTHER -> "/api/files/"

\* f"/api/files/{os.path.basename(f)}"
FileUrl(f) ==
    LET b == BaseName(f) IN
    CASE b = "clip.mp4" -> "/api/files/clip.mp4"
      [] b = "video [id].f137.mp4" -> "/api/files/video [id].f137.mp4"
      [] b = "video [id].mp4" -> "/api/files/video [id].mp4"
      [] b = "video [id].mp3" -> "/api/files/video [id].mp3"
      [] OTHER -> "/api/files/"

\* target_filename of run_download_task: sanitize_filename(title [id]) + extension
TargetFilename(selected_format) ==
    IF selected_format = "mp3" THEN "video [id].mp3" ELSE "video [id].mp4"

\* mutant of HookErrorMessage: the error branch stores no message
HookErrorMessageUnset == None

HookErrorMessage == "hook: progress hook failed"
CheckErrorMessage == "check: file missing after the process ended"
ServerErrorMessage == "server: unexpected error"

\* round(x, 1) of x = downloaded / total * 100, in tenths of a percent
RoundTenths(downloaded, total) ==
    LET n == downloaded * 1000
        q == n \div total
        r == n % total
    IN  IF 2 * r > total THEN q + 1
        ELSE IF 2 * r < total THEN q
        ELSE IF q % 2 = 0 THEN q ELSE q + 1

InitialProgress ==
    [percentage |-> 0, speed |-> "", eta |-> "", total_bytes |-> 0,
     total_bytes_string |-> "", downloaded_bytes |-> 0]

\* mutant of InitialTask: error_message seeded with '' instead of None
InitialTaskEmptyMessage ==
    [status |-> "pending", progress |-> InitialProgress,
     filename |-> None, download_url |-> None, error_message |-> ""]

InitialTask ==
    [status |-> "pending", progress |-> InitialProgress,
     filename |-> None, download_url |-> None, error_message |-> None]

----------------------------------------------------------------------------
\* ProgressHook.__call__

\* d.get(key, default) for a string-valued key
GetStr(v, default) == IF v = Missing THEN default ELSE v

\* d.get('total_bytes') or d.get('total_bytes_estimate') or 0
HookTotalBytes(d) ==
    IF ~FalsyInt(d.total_bytes) THEN d.total_bytes
    ELSE IF ~FalsyInt(d.total_bytes_estimate) THEN d.total_bytes_estimate
    ELSE 0

\* d.get('downloaded_bytes', 0)
HookDownloadedBytes(d) ==
    IF d.downloaded_bytes = MissingInt THEN 0 ELSE d.downloaded_bytes

\* The downloading branch raises TypeError when it divides None by the total
HookDownloadingRaises(d) ==
    HookTotalBytes(d) > 0 /\ HookDownloadedBytes(d) = NoneInt

HookDownloadingProgress(d) ==
    LET total_bytes == HookTotalBytes(d)
        downloaded_bytes == HookDownloadedBytes(d)
    IN  [percentage |-> IF total_bytes > 0
                        THEN RoundTenths(downloaded_bytes, total_bytes) ELSE 0,
         speed |-> GetStr(d.speed_str, "N/A"),
         eta |-> GetStr(d.eta_str, "N/A"),
         total_bytes |-> total_bytes,
         total_bytes_string |-> GetStr(d.total_bytes_str, "N/A"),
         downloaded_bytes |-> downloaded_bytes]

\* mutants of HookIgnores: the guard dropped; the guard forgetting 'error'
HookIgnoresNothing(task_info) == FALSE
HookIgnoresFinishedOnly(task_info) == task_info.status = "finished"

\* mutant of HookIgnores: the guard forgetting 'finished'
HookIgnoresErrorOnly(task_info) == task_info.status = "error"

\* if task_info['status'] in ['finished', 'error']: return
HookIgnores(task_info) == task_info.status \in TerminalStatuses

\* mutant of HookBody: the finished branch does not force percentage to 100
HookBodyKeepsPercentage(task_info, d) ==
    IF d.status = Missing
    THEN [task |-> task_info, raised |-> TRUE]           \* d['status']: KeyError
    ELSE IF d.status = "downloading"
    THEN IF HookDownloadingRaises(d)
         THEN [task |-> [task_info EXCEPT !.status = "downloading"], raised |-> TRUE]
         ELSE [task |-> [task_info EXCEPT !.status = "downloading",
                                          !.progress = HookDownloadingProgress(d)],
               raised |-> FALSE]
    ELSE IF d.status = "finished"
    THEN LET final_filename ==
                 IF ~Falsy(d.filename) THEN d.filename ELSE task_info.filename
         IN  [task |-> [task_info EXCEPT
                            !.status = "finished",
                            !.filename = final_filename,
                            !.download_url = IF ~Falsy(final_filename)
                                             THEN FileUrl(final_filename)
                                             ELSE task_info.download_url,
                            !.progress = task_info.progress],
              raised |-> FALSE]
    ELSE IF d.status = "error"
    THEN [task |-> [task_info EXCEPT !.status = "error",
                                     !.error_message = HookErrorMessage],
          raised |-> FALSE]
    ELSE [task |-> task_info, raised |-> FALSE]

\* mutant of HookBody: the finished branch builds progress anew from the
\* payload, as the downloading branch does
HookBodyFinishedRebuilds(task_info, d) ==
    IF d.status = Missing
    THEN [task |-> task_info, raised |-> TRUE]
    ELSE IF d.status = "downloading"
    THEN IF HookDownloadingRaises(d)
         THEN [task |-> [task_info EXCEPT !.status = "downloading"], raised |-> TRUE]
         ELSE [task |-> [task_info EXCEPT !.status = "downloading",
                                          !.progress = HookDownloadingProgress(d)],
               raised |-> FALSE]
    ELSE IF d.status = "finished"
    THEN LET final_filename ==
                 IF ~Falsy(d.filename) THEN d.filename ELSE task_info.filename
         IN  [task |-> [task_info EXCEPT
                            !.status = "finished",
                            !.filename = final_filename,
                            !.download_url = IF ~Falsy(final_filename)
                                             THEN FileUrl(final_filename)
                                             ELSE task_info.download_url,
                            !.progress = [percentage |-> 1000,
                                          speed |-> GetStr(d.speed_str, "N/A"),
                                          eta |-> GetStr(d.eta_str, "N/A"),
                                          total_bytes |-> task_info.progress.total_bytes,
                                          total_bytes_string |->
                                              GetStr(d.total_bytes_str, "N/A"),
                                          downloaded_bytes |->
                                              task_info.progress.downloaded_bytes]],
              raised |-> FALSE]
    ELSE IF d.status = "error"
    THEN [task |-> [task_info EXCEPT !.status = "error",
                                     !.error_message = HookErrorMessage],
          raised |-> FALSE]
    ELSE [task |-> task_info, raised |-> FALSE]

\* The body of the hook on a task it does not ignore.  [task, raised]: the
\* record as the hook leaves it, and whether an exception leaves the hook.
HookBody(task_info, d) ==
    IF d.status = Missing
    THEN [task |-> task_info, raised |-> TRUE]           \* d['status']: KeyError
    ELSE IF d.status = "downloading"
    THEN IF HookDownloadingRaises(d)
         THEN [task |-> [task_info EXCEPT !.status = "downloading"], raised |-> TRUE]
         ELSE [task |-> [task_info EXCEPT !.status = "downloading",
                                          !.progress = HookDownloadingProgress(d)],
               raised |-> FALSE]
    ELSE IF d.status = "finished"
    THEN LET final_filename ==
                 IF ~Falsy(d.filename) THEN d.filename ELSE task_info.filename
         IN  [task |-> [task_info EXCEPT
                            !.status = "finished",
                            !.filename = final_filename,
                            !.download_url = IF ~Falsy(final_filename)
                                             THEN FileUrl(final_filename)
                                             ELSE task_info.download_url,
                            !.progress = [task_info.progress EXCEPT !.percentage = 1000]],
              raised |-> FALSE]
    ELSE IF d.status = "error"
    THEN [task |-> [task_info EXCEPT !.status = "error",
                                     !.error_message = HookErrorMessage],
          raised |-> FALSE]
    ELSE [task |-> task_info, raised |-> FALSE]

\* mutant of HookCall: the submits share one initial progress dict, so the
\* in-place write of the finished branch shows in every task that still has it
HookCallSharedProgress(tasks, task_id, d) ==
    IF task_id \notin DOMAIN tasks THEN [tasks |-> tasks, raised |-> FALSE]
    ELSE IF HookIgnores(tasks[task_id]) THEN [tasks |-> tasks, raised |-> FALSE]
    ELSE LET r == HookBody(tasks[task_id], d)
             shared(u) == /\ d.status = "finished"
                          /\ tasks[task_id].progress = InitialProgress
                          /\ tasks[u].progress = InitialProgress
         IN  [tasks |-> [u \in DOMAIN tasks |->
                            IF u = task_id THEN r.task
                            ELSE IF shared(u)
                            THEN [tasks[u] EXCEPT !.progress.percentage = 1000]
                            ELSE tasks[u]],
              raised |-> r.raised]

\* mutant of HookCall: the test `task_id not in download_tasks` left out, so
\* download_tasks[task_id] raises KeyError
HookCallNoAbsentTest(tasks, task_id, d) ==
    IF task_id \notin DOMAIN tasks THEN [tasks |-> tasks, raised |-> TRUE]
    ELSE IF HookIgnores(tasks[task_id]) THEN [tasks |-> tasks, raised |-> FALSE]
    ELSE LET r == HookBody(tasks[task_id], d)
         IN  [tasks |-> [tasks EXCEPT ![task_id] = r.task], raised |-> r.raised]

\* ProgressHook(task_id)(d) on the store `tasks`: [tasks, raised]
HookCall(tasks, task_id, d) ==
    IF task_id \notin DOMAIN tasks THEN [tasks |-> tasks, raised |-> FALSE]
    ELSE IF HookIgnores(tasks[task_id]) THEN [tasks |-> tasks, raised |-> FALSE]
    ELSE LET r == HookBody(tasks[task_id], d)
         IN  [tasks |-> [tasks EXCEPT ![task_id] = r.task], raised |-> r.raised]

----------------------------------------------------------------------------
\* run_download_task

\* str(e) of the exceptions the metadata resolver and the worker raise
ErrFfmpeg == "ERROR: ffmpeg was not found"
ErrFfmpegUnsupported == "ERROR: Unsupported URL: u; ffmpeg is not installed"
ErrUnsupported == "ERROR: Unsupported URL: u"
ErrUnsupportedUnavailable == "ERROR: Unsupported URL: u; Video unavailable"
ErrUnavailable == "ERROR: Video unavailable"
ErrUnavailable429 == "ERROR: Video unavailable; HTTP Error 429"
Err429 == "ERROR: HTTP Error 429: Too Many Requests"
ErrShort == "ERROR: short"
ErrLong == "ERROR: long"      \* stands for a text of more than 150 characters

ErrTexts == {ErrFfmpeg, ErrFfmpegUnsupported, ErrUnsupported, ErrUnsupportedUnavailable,
             ErrUnavailable, ErrUnavailable429, Err429, ErrShort, ErrLong}

\* the substrings run_download_task looks for that err_str contains
Markers(err_str) ==
    CASE err_str = ErrFfmpeg -> {"ffmpeg was not found"}
      [] err_str = ErrFfmpegUnsupported -> {"ffmpeg is not installed", "Unsupported URL"}
      [] err_str = ErrUnsupported -> {"Unsupported URL"}
      [] err_str = ErrUnsupportedUnavailable -> {"Unsupported URL", "Video unavailable"}
      [] err_str = ErrUnavailable -> {"Video unavailable"}
      [] err_str = ErrUnavailable429 -> {"Video unavailable", "HTTP Error 429"}
      [] err_str = Err429 -> {"HTTP Error 429"}
      [] OTHER -> {}

\* f"download error: {err_str[:150]}..."
GenericDownloadMessage(err_str) ==
    IF err_str = ErrLong THEN "download: ERROR: long[:150]..."
    ELSE IF err_str = ErrShort THEN "download: ERROR: short..."
    ELSE "download: ..."

\* mutant of DownloadErrorMessage: "Video unavailable" tested before
\* "Unsupported URL"
DownloadErrorMessageReordered(err_str) ==
    LET m == Markers(err_str) IN
    IF "ffmpeg was not found" \in m \/ "ffmpeg is not installed" \in m
    THEN "download: ffmpeg missing"
    ELSE IF "Video unavailable" \in m THEN "download: video unavailable"
    ELSE IF "Unsupported URL" \in m THEN "download: unsupported url"
    ELSE IF "HTTP Error 429" \in m THEN "download: too many requests"
    ELSE GenericDownloadMessage(err_str)

\* the if/elif chain of the DownloadError handler
DownloadErrorMessage(err_str) ==
    LET m == Markers(err_str) IN
    IF "ffmpeg was not found" \in m \/ "ffmpeg is not installed" \in m
    THEN "download: ffmpeg missing"
    ELSE IF "Unsupported URL" \in m THEN "download: unsupported url"
    ELSE IF "Video unavailable" \in m THEN "download: video unavailable"
    ELSE IF "HTTP Error 429" \in m THEN "download: too many requests"
    ELSE GenericDownloadMessage(err_str)

NoExc == [type |-> "none", text |-> "none"]
DownloadError(text) == [type |-> "DownloadError", text |-> text]
OtherException == [type |-> "Exception", text |-> "exception"]

\* mutant of Catches: the except Exception clause left out
CatchesDownloadErrorOnly(e) == e.type = "DownloadError"

\* except DownloadError ... except Exception: the exceptions a handler catches
Catches(e) == e.type \in {"DownloadError", "Exception"}

\* the message either handler of run_download_task records for exception e
HandlerMessage(e) ==
    IF e.type = "DownloadError" THEN DownloadErrorMessage(e.text)
    ELSE ServerErrorMessage

\* the task either handler of run_download_task leaves
HandlerTask(task_info, e) ==
    [task_info EXCEPT !.status = "error", !.error_message = HandlerMessage(e)]

\* mutant of CheckApplies: the check also finalises a task that is error
CheckAppliesToError(task_info) == task_info.status # "finished"

\* `download_tasks[task_id]['status'] not in ['finished', 'error']` of the check
CheckApplies(task_info) == task_info.status \notin TerminalStatuses

\* mutant of CheckTask: download_url is not backfilled
CheckTaskNoUrl(task_info, target_filename, exists) ==
    IF target_filename # None /\ exists
    THEN [task_info EXCEPT
            !.status = "finished",
            !.filename = IF Falsy(task_info.filename) THEN target_filename ELSE @,
            !.progress = [@ EXCEPT !.percentage = 1000]]
    ELSE [task_info EXCEPT !.status = "error", !.error_message = CheckErrorMessage]

\* the task the post-worker consistency check leaves when it applies
CheckTask(task_info, target_filename, exists) ==
    IF target_filename # None /\ exists
    THEN [task_info EXCEPT
            !.status = "finished",
            !.filename = IF Falsy(task_info.filename) THEN target_filename ELSE @,
            !.download_url = IF Falsy(task_info.download_url)
                             THEN FileUrl(target_filename) ELSE @,
            !.progress = [@ EXCEPT !.percentage = 1000]]
    ELSE [task_info EXCEPT !.status = "error", !.error_message = CheckErrorMessage]

\* the thread of a task, as threading.Thread(target=run_download_task) starts it
NewRunner(selected_format) ==
    [pc |-> "start", selected_format |-> selected_format,
     target_filename |-> None, exc |-> NoExc]

----------------------------------------------------------------------------
\* The record of the last step

NoOp == [op |-> "init", task_id |-> 0, kind |-> "", code |-> 0, success |-> FALSE,
         has_body |-> FALSE, video_url |-> None, format |-> None]

Op(op, task_id, kind) == [NoOp EXCEPT !.op = op, !.task_id = task_id, !.kind = kind]

----------------------------------------------------------------------------
\* start_download_route

\* the JSON body of a POST /api/download
Request(has_body, video_url, format) ==
    [has_body |-> has_body, video_url |-> video_url, format |-> format]

Requests ==
    {Request(FALSE, None, None)} \cup
    {Request(TRUE, u, f) : u \in {None, "", "u"}, f \in {None, "", "mp3", "720p"}}

\* mutant of SubmitRejects: `and` for `or` in the second test
SubmitRejectsBothMissing(r) == ~r.has_body \/ (Falsy(r.video_url) /\ Falsy(r.format))

\* the two early returns with HTTP 400
SubmitRejects(r) == ~r.has_body \/ Falsy(r.video_url) \/ Falsy(r.format)

\* mutant of Uuid4: an identifier generator that repeats itself
Uuid4Repeating(used) == TaskIds

\* uuid.uuid4().hex: an identifier that was never handed out before
Uuid4(used) == TaskIds \ used

Store(tasks, task_id, task_info) ==
    [t \in DOMAIN tasks \cup {task_id} |-> IF t = task_id THEN task_info ELSE tasks[t]]

SubmitResponse(r, code, task_id) ==
    [Op("submit", task_id, "") EXCEPT !.code = code, !.success = (code = 200),
                                      !.has_body = r.has_body,
                                      !.video_url = r.video_url, !.format = r.format]

Submit(r) ==
    IF SubmitRejects(r)
    THEN /\ last' = SubmitResponse(r, 400, 0)
         /\ UNCHANGED <<download_tasks, runner, stream, lockvars>>
    ELSE \E task_id \in Uuid4(DOMAIN download_tasks) :
         /\ download_tasks' = Store(download_tasks, task_id, InitialTask)
         /\ runner' = Store(runner, task_id, NewRunner(r.format))
         /\ last' = SubmitResponse(r, 200, task_id)
         /\ UNCHANGED <<stream, lockvars>>

----------------------------------------------------------------------------
\* The steps of run_download_task(task_id, video_url, selected_format)

At(task_id, pc) == task_id \in DOMAIN runner /\ runner[task_id].pc = pc

\* with tasks_lock: status = 'fetching_info'
RunFetchingInfo(t) ==
    /\ At(t, "start")
    /\ IF t \in DOMAIN download_tasks
       THEN /\ download_tasks' = [download_tasks EXCEPT ![t].status = "fetching_info"]
            /\ runner' = [runner EXCEPT ![t].pc = "extract_info"]
       ELSE /\ runner' = [runner EXCEPT ![t].pc = "done"]
            /\ UNCHANGED download_tasks
    /\ last' = Op("fetching_info", t, "")
    /\ UNCHANGED stream
    /\ UNCHANGED lockvars

\* mutant of RunPreparingDownload: the status literal is 'pending'
RunPreparingDownloadResets(t) ==
    /\ At(t, "extract_info")
    /\ LET target_filename == TargetFilename(runner[t].selected_format) IN
       /\ download_tasks' =
              IF t \in DOMAIN download_tasks
              THEN [download_tasks EXCEPT ![t].filename = target_filename,
                                          ![t].status = "pending"]
              ELSE download_tasks
       /\ runner' = [runner EXCEPT
                        ![t].pc = IF t \in DOMAIN download_tasks
                                  THEN "options" ELSE "done",
                        ![t].target_filename = target_filename]
    /\ last' = Op("preparing_download", t, "")
    /\ UNCHANGED stream
    /\ UNCHANGED lockvars

\* mutant of RunPreparingDownload: the file name is not recorded on the task
RunPreparingDownloadNoName(t) ==
    /\ At(t, "extract_info")
    /\ LET target_filename == TargetFilename(runner[t].selected_format) IN
       /\ download_tasks' =
              IF t \in DOMAIN download_tasks
              THEN [download_tasks EXCEPT ![t].status = "preparing_download"]
              ELSE download_tasks
       /\ runner' = [runner EXCEPT
                        ![t].pc = IF t \in DOMAIN download_tasks
                                  THEN "options" ELSE "done",
                        ![t].target_filename = target_filename]
    /\ last' = Op("preparing_download", t, "")
    /\ UNCHANGED stream
    /\ UNCHANGED lockvars

\* ydl.extract_info returns; with tasks_lock: filename, status = 'preparing_download'
RunPreparingDownload(t) ==
    /\ At(t, "extract_info")
    /\ LET target_filename == TargetFilename(runner[t].selected_format) IN
       IF t \in DOMAIN download_tasks
       THEN /\ download_tasks' = [download_tasks EXCEPT
                                     ![t].filename = target_filename,
                                     ![t].status = "preparing_download"]
            /\ runner' = [runner EXCEPT ![t].pc = "options",
                                        ![t].target_filename = target_filename]
       ELSE /\ runner' = [runner EXCEPT ![t].pc = "done",
                                        ![t].target_filename = target_filename]
            /\ UNCHANGED download_tasks
    /\ last' = Op("preparing_download", t, "")
    /\ UNCHANGED stream
    /\ UNCHANGED lockvars

\* ydl.extract_info raises e
ExtractInfoRaises(t, e) ==
    /\ At(t, "extract_info")
    /\ runner' = [runner EXCEPT ![t].pc = "except", ![t].exc = e]
    /\ last' = Op("extract_info_raises", t, e.type)
    /\ UNCHANGED <<download_tasks, stream>>
    /\ UNCHANGED lockvars

\* mutant of RunDownloading: ydl.download starts without the status write
RunDownloadingSilent(t) ==
    /\ At(t, "options")
    /\ runner' = [runner EXCEPT ![t].pc = IF t \in DOMAIN download_tasks
                                          THEN "download" ELSE "done"]
    /\ last' = Op("downloading", t, "")
    /\ UNCHANGED <<download_tasks, stream>>
    /\ UNCHANGED lockvars

\* with tasks_lock: status = 'downloading'; then ydl.download starts
RunDownloading(t) ==
    /\ At(t, "options")
    /\ IF t \in DOMAIN download_tasks
       THEN /\ download_tasks' = [download_tasks EXCEPT ![t].status = "downloading"]
            /\ runner' = [runner EXCEPT ![t].pc = "download"]
       ELSE /\ runner' = [runner EXCEPT ![t].pc = "done"]
            /\ UNCHANGED download_tasks
    /\ last' = Op("downloading", t, "")
    /\ UNCHANGED stream
    /\ UNCHANGED lockvars

\* the worker calls the hook with payload d; an exception of the hook is raised
\* into ydl.download and leaves it
HookCallback(t, d) ==
    /\ At(t, "download")
    /\ LET r == HookCall(download_tasks, t, d) IN
       /\ download_tasks' = r.tasks
       /\ runner' = IF r.raised
                    THEN [runner EXCEPT ![t].pc = "except", ![t].exc = OtherException]
                    ELSE runner
       /\ last' = [Op("hook", t, d.status) EXCEPT !.code = IF r.raised THEN 1 ELSE 0]
    /\ UNCHANGED stream
    /\ UNCHANGED lockvars

\* ydl.download returns
WorkerReturns(t) ==
    /\ At(t, "download")
    /\ runner' = [runner EXCEPT ![t].pc = "check"]
    /\ last' = Op("worker_returns", t, "")
    /\ UNCHANGED <<download_tasks, stream>>
    /\ UNCHANGED lockvars

\* ydl.download raises e
WorkerRaises(t, e) ==
    /\ At(t, "download")
    /\ runner' = [runner EXCEPT ![t].pc = "except", ![t].exc = e]
    /\ last' = Op("worker_raises", t, e.type)
    /\ UNCHANGED <<download_tasks, stream>>
    /\ UNCHANGED lockvars

\* time.sleep(0.5); with tasks_lock: the final check; exists = os.path.exists(target_filepath)
ConsistencyCheck(t, exists) ==
    /\ At(t, "check")
    /\ download_tasks' =
         IF t \in DOMAIN download_tasks /\ CheckApplies(download_tasks[t])
         THEN [download_tasks EXCEPT
                 ![t] = CheckTask(download_tasks[t], runner[t].target_filename, exists)]
         ELSE download_tasks
    /\ runner' = [runner EXCEPT ![t].pc = "done"]
    /\ last' = Op("check", t, IF exists THEN "exists" ELSE "absent")
    /\ UNCHANGED stream
    /\ UNCHANGED lockvars

\* except DownloadError / except Exception: with tasks_lock: status = 'error', error_message
\* mutant of HandleException: the finally clause removes the failed task from
\* the dictionary
HandleExceptionCleansUp(t) ==
    /\ At(t, "except")
    /\ download_tasks' = [u \in DOMAIN download_tasks \ {t} |-> download_tasks[u]]
    /\ runner' = [runner EXCEPT ![t].pc = IF Catches(runner[t].exc) THEN "done" ELSE "escaped"]
    /\ last' = Op("handler", t, runner[t].exc.type)
    /\ UNCHANGED stream
    /\ UNCHANGED lockvars

HandleException(t) ==
    /\ At(t, "except")
    /\ download_tasks' =
         IF Catches(runner[t].exc) /\ t \in DOMAIN download_tasks
         THEN [download_tasks EXCEPT ![t] = HandlerTask(download_tasks[t], runner[t].exc)]
         ELSE download_tasks
    /\ runner' = [runner EXCEPT ![t].pc = IF Catches(runner[t].exc) THEN "done" ELSE "escaped"]
    /\ last' = Op("handler", t, runner[t].exc.type)
    /\ UNCHANGED stream
    /\ UNCHANGED lockvars

----------------------------------------------------------------------------
\* event_stream(current_task_id)

\* json.dumps(task_state_copy): the fields in the order of the dict's keys
Serialize(task_info) ==
    <<task_info.status,
      <<task_info.progress.percentage, task_info.progress.speed, task_info.progress.eta,
        task_info.progress.total_bytes, task_info.progress.total_bytes_string,
        task_info.progress.downloaded_bytes>>,
      task_info.filename, task_info.download_url, task_info.error_message>>

NothingSent == <<>>        \* last_sent_state_str = None

DataEvent(json_data) == [event |-> "message", data |-> json_data]
NotFoundEvent == [event |-> "error", data |-> <<"Task not found or removed.">>]

\* no connection yet
NoStream ==
    [task_id |-> 0, pc |-> "idle", connected |-> FALSE,
     last_sent |-> NothingSent, events |-> <<>>]

NewStream(task_id) ==
    [task_id |-> task_id, pc |-> "poll", connected |-> TRUE,
     last_sent |-> NothingSent, events |-> <<>>]

\* mutant of StreamSends: the comparison with the last sent string left out
StreamSendsAlways(json_data, last_sent) == TRUE

\* if json_data != last_sent_state_str
StreamSends(json_data, last_sent) == json_data # last_sent

\* mutant of StreamStops: 'error' left out of the list that ends the loop
StreamStopsFinishedOnly(task_state_copy) == task_state_copy.status = "finished"

\* mutant of StreamStops: the loop also ends on the first downloading snapshot
StreamStopsEarly(task_state_copy) ==
    task_state_copy.status \in {"downloading", "finished", "error"}

\* if task_state_copy['status'] in ['finished', 'error']: break
StreamStops(task_state_copy) == task_state_copy.status \in TerminalStatuses

\* mutant of Yield: the event is put before the events already sent
YieldOutOfOrder(st, ev, write_fails) ==
    IF st.connected THEN [st EXCEPT !.events = <<ev>> \o @]
    ELSE IF write_fails THEN [st EXCEPT !.pc = "exited"]
    ELSE st

\* a yield: the event reaches a connected client; the write to a client that is
\* gone either fails, which closes the generator (GeneratorExit), or is lost
Yield(st, ev, write_fails) ==
    IF st.connected THEN [st EXCEPT !.events = Append(@, ev)]
    ELSE IF write_fails THEN [st EXCEPT !.pc = "exited"]
    ELSE st

\* mutant of NotFoundPass: the break after the not-found event left out
NotFoundPassNoBreak(st, write_fails) ==
    LET y == Yield(st, NotFoundEvent, write_fails)
    IN  IF y.pc = "exited" THEN y ELSE [y EXCEPT !.pc = "sleep"]

\* if not task_state_copy: yield the not-found event; break
NotFoundPass(st, write_fails) ==
    LET y == Yield(st, NotFoundEvent, write_fails)
    IN  IF y.pc = "exited" THEN y ELSE [y EXCEPT !.pc = "closed"]

\* mutant of StreamPass: a pass that has sent a snapshot sleeps, and the loop
\* ends on the next pass that finds the terminal state already sent
StreamPassBreaksLate(st, tasks, write_fails) ==
    IF st.task_id \notin DOMAIN tasks
    THEN NotFoundPass(st, write_fails)
    ELSE LET task_state_copy == tasks[st.task_id]
             json_data == Serialize(task_state_copy)
             sends == StreamSends(json_data, st.last_sent)
             y == IF sends
                  THEN [Yield(st, DataEvent(json_data), write_fails)
                            EXCEPT !.last_sent = json_data]
                  ELSE st
         IN  IF y.pc = "exited" THEN y
             ELSE IF StreamStops(task_state_copy) /\ ~sends THEN [y EXCEPT !.pc = "closed"]
             ELSE [y EXCEPT !.pc = "sleep"]

\* one pass of the while loop, up to time.sleep or break
StreamPass(st, tasks, write_fails) ==
    IF st.task_id \notin DOMAIN tasks
    THEN NotFoundPass(st, write_fails)
    ELSE LET task_state_copy == tasks[st.task_id]
             json_data == Serialize(task_state_copy)
             y == IF StreamSends(json_data, st.last_sent)
                  THEN [Yield(st, DataEvent(json_data), write_fails)
                            EXCEPT !.last_sent = json_data]
                  ELSE st
         IN  IF y.pc = "exited" THEN y
             ELSE IF StreamStops(task_state_copy) THEN [y EXCEPT !.pc = "closed"]
             ELSE [y EXCEPT !.pc = "sleep"]

\* GET /api/stream/<task_id>: a client connects
StreamOpen(task_id) ==
    /\ stream.pc = "idle"
    /\ stream' = NewStream(task_id)
    /\ last' = Op("stream_open", task_id, "")
    /\ UNCHANGED <<download_tasks, runner>>
    /\ UNCHANGED lockvars

\* mutant of StreamPoll: the pass that sends a terminal snapshot also removes
\* the task from the dictionary
StreamPollCleansUp(write_fails) ==
    /\ stream.pc = "poll"
    /\ stream' = StreamPass(stream, download_tasks, write_fails)
    /\ last' = [Op("stream_poll", stream.task_id, "")
                    EXCEPT !.code = Len(stream'.events) - Len(stream.events)]
    /\ download_tasks' =
           IF stream'.pc = "closed"
           THEN [t \in DOMAIN download_tasks \ {stream.task_id} |-> download_tasks[t]]
           ELSE download_tasks
    /\ UNCHANGED runner
    /\ UNCHANGED lockvars

StreamPoll(write_fails) ==
    /\ stream.pc = "poll"
    /\ stream' = StreamPass(stream, download_tasks, write_fails)
    \* code: the number of events this pass handed to the client
    /\ last' = [Op("stream_poll", stream.task_id, "")
                    EXCEPT !.code = Len(stream'.events) - Len(stream.events)]
    /\ UNCHANGED <<download_tasks, runner>>
    /\ UNCHANGED lockvars

\* time.sleep(0.5) returns
StreamWake ==
    /\ stream.pc = "sleep"
    /\ stream' = [stream EXCEPT !.pc = "poll"]
    /\ last' = Op("stream_wake", stream.task_id, "")
    /\ UNCHANGED <<download_tasks, runner>>
    /\ UNCHANGED lockvars

\* mutant of ClientDisconnect: closing the connection also ends the runners
ClientDisconnectCancels ==
    /\ stream.connected
    /\ stream.pc \in {"poll", "sleep"}
    /\ stream' = [stream EXCEPT !.connected = FALSE]
    /\ runner' = [t \in DOMAIN runner |-> [runner[t] EXCEPT !.pc = "done"]]
    /\ last' = Op("disconnect", stream.task_id, "")
    /\ UNCHANGED download_tasks
    /\ UNCHANGED lockvars

\* the client closes the connection
ClientDisconnect ==
    /\ stream.connected
    /\ stream.pc \in {"poll", "sleep"}
    /\ stream' = [stream EXCEPT !.connected = FALSE]
    /\ last' = Op("disconnect", stream.task_id, "")
    /\ UNCHANGED <<download_tasks, runner>>
    /\ UNCHANGED lockvars

----------------------------------------------------------------------------
\* get_file

\* the names of GET /api/files/<path:filename> of the model: a file of the
\* download folder, a parent-directory name, an absolute path, and a name that
\* resolves into a sibling folder whose path begins like the download folder's
FileNames == {"clip.mp4", "../app.py", "/etc/passwd", "../downloads_old/clip.mp4"}

\* the file on disk: there, not there, or removed between the test and the open
FileStates == {"present", "absent", "vanishing"}

\* os.path.abspath(os.path.join(DOWNLOAD_FOLDER, filename)), DOWNLOAD_FOLDER
\* being /srv/downloads
SafePath(filename) ==
    CASE filename = "clip.mp4" -> "/srv/downloads/clip.mp4"
      [] filename = "../app.py" -> "/srv/app.py"
      [] filename = "/etc/passwd" -> "/etc/passwd"
      [] filename = "../downloads_old/clip.mp4" -> "/srv/downloads_old/clip.mp4"

\* safe_path.startswith(os.path.abspath(DOWNLOAD_FOLDER))
StartsWithDownloadFolder(safe_path) ==
    safe_path \in {"/srv/downloads/clip.mp4", "/srv/downloads_old/clip.mp4"}

\* the path is the download folder or lies under it
InsideDownloadFolder(safe_path) == safe_path = "/srv/downloads/clip.mp4"

\* send_from_directory: safe_join refuses a name that is absolute or leaves
\* the directory (NotFound), a missing file is NotFound, a file that is gone
\* when it is opened is FileNotFoundError
SendFromDirectory(filename, file_state) ==
    IF filename # "clip.mp4" THEN "NotFound"
    ELSE IF file_state = "absent" THEN "NotFound"
    ELSE IF file_state = "vanishing" THEN "FileNotFoundError"
    ELSE "none"

\* the try block of get_file: the exception it ends with, or "none"
GetFileBody(filename, file_state) ==
    IF ~StartsWithDownloadFolder(SafePath(filename))
    THEN "NotFound"                                   \* abort(404)
    ELSE SendFromDirectory(filename, file_state)

\* the except clauses: FileNotFoundError -> abort(404); Exception, to which
\* the HTTPException of abort belongs -> abort(500)
GetFileStatus(exc) ==
    IF exc = "none" THEN 200
    ELSE IF exc = "FileNotFoundError" THEN 404
    ELSE 500

\* GET /api/files/<filename>
GetFile(filename, file_state) ==
    /\ last' = [Op("get_file", 0, filename) EXCEPT
                    !.code = GetFileStatus(GetFileBody(filename, file_state)),
                    !.success = (GetFileBody(filename, file_state) = "none")]
    /\ UNCHANGED <<download_tasks, runner, stream>>
    /\ UNCHANGED lockvars

----------------------------------------------------------------------------
\* Inputs

Payload(status, total_bytes, total_bytes_estimate, downloaded_bytes, strs, filename) ==
    [status |-> status, total_bytes |-> total_bytes,
     total_bytes_estimate |-> total_bytes_estimate,
     downloaded_bytes |-> downloaded_bytes,
     speed_str |-> IF strs THEN "1MiB/s" ELSE Missing,
     eta_str |-> IF strs THEN "00:01" ELSE Missing,
     total_bytes_str |-> IF strs THEN "2B" ELSE Missing,
     filename |-> filename]

DownloadingPayload(downloaded_bytes) ==
    Payload("downloading", MaxBytes, MissingInt, downloaded_bytes, TRUE, Missing)
FinishedPayload(filename) ==
    Payload("finished", MaxBytes, MissingInt, MaxBytes, FALSE, filename)
ErrorPayload == Payload("error", MissingInt, MissingInt, MissingInt, FALSE, Missing)

\* one callback of each kind
CorePayloads ==
    {DownloadingPayload(MaxBytes), FinishedPayload("/srv/downloads/clip.mp4"), ErrorPayload}

\* payloads on which the hook raises: no 'status' key; downloaded_bytes None
NoStatusPayload == Payload(Missing, MissingInt, MissingInt, MissingInt, FALSE, Missing)
NoneDownloadedPayload == DownloadingPayload(NoneInt)

\* a callback of a download whose size is only estimated, the estimate being
\* larger than the size the other callbacks report
EstimatePayload == Payload("downloading", MissingInt, MaxBytes + 1, 1, TRUE, Missing)

\* a callback that reports more bytes downloaded than the estimated size
ExcessPayload == Payload("downloading", MissingInt, 1, MaxBytes, TRUE, Missing)

\* the callbacks of a download of MaxBytes bytes, with and without a file name,
\* those with an estimated size, and the malformed ones
Payloads ==
    {DownloadingPayload(n) : n \in 0..MaxBytes}
    \cup {EstimatePayload, ExcessPayload}
    \cup {FinishedPayload(f) : f \in {Missing, "/srv/downloads/clip.mp4"}}
    \cup {ErrorPayload, NoStatusPayload, NoneDownloadedPayload}

CoreExceptions == {DownloadError(ErrShort)}
Exceptions == {DownloadError(ErrUnsupported), DownloadError(ErrShort), OtherException}

CoreRequests ==
    {Request(TRUE, "u", "720p"), Request(TRUE, "", "720p"), Request(TRUE, "u", None)}

----------------------------------------------------------------------------
\* Specifications

Init ==
    /\ download_tasks = <<>>
    /\ runner = <<>>
    /\ stream = NoStream
    /\ last = NoOp
    /\ tasks_lock = 0
    /\ threads = <<>>

RunnerStep(t, payloads, exceptions) ==
    \/ RunFetchingInfo(t)
    \/ RunPreparingDownload(t)
    \/ \E e \in exceptions : ExtractInfoRaises(t, e)
    \/ RunDownloading(t)
    \/ \E d \in payloads : HookCallback(t, d)
    \/ WorkerReturns(t)
    \/ \E e \in exceptions : WorkerRaises(t, e)
    \/ \E exists \in BOOLEAN : ConsistencyCheck(t, exists)
    \/ HandleException(t)

StreamStep ==
    \/ \E t \in TaskIds : StreamOpen(t)
    \/ \E write_fails \in BOOLEAN : StreamPoll(write_fails)
    \/ StreamWake
    \/ ClientDisconnect

\* Spec: the dispatcher and the runners and hooks of MaxTasks tasks
Next ==
    \/ \E r \in CoreRequests : Submit(r)
    \/ \E t \in TaskIds : RunnerStep(t, CorePayloads, CoreExceptions)

Spec == Init /\ [][Next]_vars

\* SpecTask: every request, and the life of the first task submitted, with
\* every callback and exception of the model
FirstSubmit(r) == (SubmitRejects(r) \/ download_tasks = <<>>) /\ Submit(r)

NextTask ==
    \/ \E r \in Requests : FirstSubmit(r)
    \/ \E t \in TaskIds : RunnerStep(t, Payloads, Exceptions)

SpecTask == Init /\ [][NextTask]_vars

\* SpecStream: the first task submitted and a stream opened on any task id.
\* A stream only reads the store, so one connection stands for each of them.
NextStream ==
    \/ \E r \in CoreRequests : FirstSubmit(r)
    \/ \E t \in TaskIds : RunnerStep(t, CorePayloads, CoreExceptions)
    \/ StreamStep

SpecStream == Init /\ [][NextStream]_vars

\* SpecFair: SpecTask with the runner thread scheduled fairly, and with the
\* metadata resolver and the worker call each returning or raising in the end
RunnerProgress(t) ==
    \/ RunFetchingInfo(t)
    \/ RunPreparingDownload(t)
    \/ \E e \in Exceptions : ExtractInfoRaises(t, e)
    \/ RunDownloading(t)
    \/ WorkerReturns(t)
    \/ \E e \in Exceptions : WorkerRaises(t, e)
    \/ \E exists \in BOOLEAN : ConsistencyCheck(t, exists)
    \/ HandleException(t)

SpecFair == SpecTask /\ \A t \in TaskIds : WF_vars(RunnerProgress(t))

\* SpecStreamFair: SpecStream with the runner threads and the stream's thread
\* scheduled fairly
StreamProgress == (\E write_fails \in BOOLEAN : StreamPoll(write_fails)) \/ StreamWake

SpecStreamFair ==
    SpecStream /\ WF_vars(StreamProgress) /\ \A t \in TaskIds : WF_vars(RunnerProgress(t))

\* A scripted worker: ydl.download delivers the callbacks of a script in order
\* and then returns. A callback is absorbed by a task that it leaves unchanged;
\* the hook overwrites the progress record, so the callbacks delivered so far
\* are those up to the last one absorbed.
ScriptDownloading(downloaded_bytes) ==
    Payload("downloading", 2, MissingInt, downloaded_bytes, TRUE, Missing)

Absorbed(task_info, d) == HookBody(task_info, d).task = task_info

Delivered(task_info, script) ==
    LET done == {k \in 1..Len(script) : Absorbed(task_info, script[k])}
    IN  IF done = {} THEN 0 ELSE CHOOSE k \in done : \A j \in done : j <= k

ScriptedCallback(t, script) ==
    /\ t \in DOMAIN download_tasks
    /\ Delivered(download_tasks[t], script) < Len(script)
    /\ HookCallback(t, script[Delivered(download_tasks[t], script) + 1])

ScriptedReturn(t, script) ==
    /\ t \in DOMAIN download_tasks
    /\ Delivered(download_tasks[t], script) = Len(script)
    /\ WorkerReturns(t)

\* SpecPolled: the worker reports 50%, 100% and finished, and the poll interval
\* of the stream is shorter than the time between two updates of the task:
\* every update waits until the stream has read the state before it.
PolledScript ==
    <<ScriptDownloading(1), ScriptDownloading(2),
      FinishedPayload("/srv/downloads/clip.mp4")>>

Polled(t) ==
    /\ stream.task_id = t
    /\ t \in DOMAIN download_tasks
    /\ stream.last_sent = Serialize(download_tasks[t])

NextPolled ==
    \/ \E r \in CoreRequests : FirstSubmit(r)
    \/ StreamStep
    \/ \E t \in TaskIds :
          \/ Polled(t) /\ RunFetchingInfo(t)
          \/ Polled(t) /\ RunPreparingDownload(t)
          \/ Polled(t) /\ RunDownloading(t)
          \/ Polled(t) /\ ScriptedCallback(t, PolledScript)
          \/ ScriptedReturn(t, PolledScript)
          \/ \E exists \in BOOLEAN : ConsistencyCheck(t, exists)

SpecPolled == Init /\ [][NextPolled]_vars

\* SpecEndToEnd: a worker that reports 0%, 50% and 100%,
\* declares finished with the file name "clip.mp4" and returns; streams poll
\* at any time
EndToEndScript ==
    <<ScriptDownloading(0), ScriptDownloading(1), ScriptDownloading(2),
      Payload("finished", 2, MissingInt, 2, FALSE, "clip.mp4")>>

NextEndToEnd ==
    \/ \E r \in CoreRequests : FirstSubmit(r)
    \/ StreamStep
    \/ \E t \in TaskIds :
          \/ RunFetchingInfo(t)
          \/ RunPreparingDownload(t)
          \/ RunDownloading(t)
          \/ ScriptedCallback(t, EndToEndScript)
          \/ ScriptedReturn(t, EndToEndScript)
          \/ \E exists \in BOOLEAN : ConsistencyCheck(t, exists)

SpecEndToEnd == Init /\ [][NextEndToEnd]_vars

\* SpecErrors: the first task submitted, with the metadata resolver and the
\* worker raising a DownloadError of every text of the model or another
\* exception
AllExceptions == {DownloadError(err_str) : err_str \in ErrTexts} \cup {OtherException}

NextErrors ==
    \/ \E r \in CoreRequests : FirstSubmit(r)
    \/ \E t \in TaskIds : RunnerStep(t, CorePayloads, AllExceptions)

SpecErrors == Init /\ [][NextErrors]_vars

\* SpecCleared: Spec with a task cleared from the dictionary from outside while
\* its runner is alive, the case the tests `task_id in download_tasks` of the
\* hook and of the runner are written for. Nothing is submitted after a clear.
ExternalClear(t) ==
    /\ t \in DOMAIN download_tasks
    /\ DOMAIN runner \subseteq DOMAIN download_tasks
    /\ download_tasks' = [u \in DOMAIN download_tasks \ {t} |-> download_tasks[u]]
    /\ last' = Op("clear", t, "")
    /\ UNCHANGED <<runner, stream>>
    /\ UNCHANGED lockvars

SubmitBeforeClear(r) ==
    /\ SubmitRejects(r) \/ DOMAIN runner \subseteq DOMAIN download_tasks
    /\ Submit(r)

NextCleared ==
    \/ \E r \in CoreRequests : SubmitBeforeClear(r)
    \/ \E t \in TaskIds : RunnerStep(t, CorePayloads, CoreExceptions)
    \/ \E t \in TaskIds : ExternalClear(t)

SpecCleared == Init /\ [][NextCleared]_vars

\* SpecFiles: the first task submitted and file requests at any time
NextFiles ==
    \/ \E r \in CoreRequests : FirstSubmit(r)
    \/ \E t \in TaskIds : RunnerStep(t, CorePayloads, CoreExceptions)
    \/ \E filename \in FileNames, file_state \in FileStates : GetFile(filename, file_state)

SpecFiles == Init /\ [][NextFiles]_vars

----------------------------------------------------------------------------
\* SpecLock: the updates of one task, statement by statement, by MaxThreads
\* threads that each run one critical section of ProgressHook.__call__ or of
\* run_download_task under `with tasks_lock:`

ThreadIds == 1..MaxThreads
LockTask == 1            \* the task id the threads update

NoPayload == Payload("none", MissingInt, MissingInt, MissingInt, FALSE, Missing)
HookOp(d) == [op |-> "hook", d |-> d, e |-> NoExc, exists |-> FALSE]
HandlerOp(e) == [op |-> "handler", d |-> NoPayload, e |-> e, exists |-> FALSE]
CheckOp(exists) == [op |-> "check", d |-> NoPayload, e |-> NoExc, exists |-> exists]
DownloadingOp == [op |-> "downloading", d |-> NoPayload, e |-> NoExc, exists |-> FALSE]

LockCalls ==
    {HookOp(d) : d \in CorePayloads} \cup {HandlerOp(e) : e \in CoreExceptions}
    \cup {CheckOp(exists) : exists \in BOOLEAN} \cup {DownloadingOp}

NewThread(call) ==
    [call |-> call, pc |-> "start", final_filename |-> None,
     new_progress_data |-> InitialProgress]

\* the task and its runner when ydl.download is running
LockInitialTask ==
    [InitialTask EXCEPT !.status = "downloading", !.filename = TargetFilename("720p")]
LockInitialRunner ==
    [NewRunner("720p") EXCEPT !.pc = "download", !.target_filename = TargetFilename("720p")]

\* mutant of LockFree: the critical sections entered without the lock
LockAlwaysFree(lock) == TRUE

\* tasks_lock.acquire() of `with tasks_lock:` returns only when the lock is free
LockFree(lock) == lock = 0

\* the statements of ProgressHook.__call__ inside the lock
HookStatement(th, task_info) ==
    LET d == th.call.d IN
    CASE th.pc = "locked" ->
           IF HookIgnores(task_info) \/ d.status = Missing
           THEN [task |-> task_info, th |-> [th EXCEPT !.pc = "done"]]
           ELSE [task |-> task_info,
                 th |-> [th EXCEPT
                           !.new_progress_data = task_info.progress,
                           !.pc = CASE d.status = "downloading" -> "hook_downloading"
                                    [] d.status = "finished" -> "hook_finished"
                                    [] d.status = "error" -> "hook_error"
                                    [] OTHER -> "hook_progress"]]
      [] th.pc = "hook_downloading" ->
           [task |-> [task_info EXCEPT !.status = "downloading"],
            th |-> IF HookDownloadingRaises(d) THEN [th EXCEPT !.pc = "done"]
                   ELSE [th EXCEPT !.new_progress_data = HookDownloadingProgress(d),
                                   !.pc = "hook_progress"]]
      [] th.pc = "hook_finished" ->
           [task |-> [task_info EXCEPT !.status = "finished"],
            th |-> [th EXCEPT !.final_filename = IF ~Falsy(d.filename) THEN d.filename
                                                 ELSE task_info.filename,
                              !.pc = "hook_filename"]]
      [] th.pc = "hook_filename" ->
           [task |-> [task_info EXCEPT !.filename = th.final_filename],
            th |-> [th EXCEPT !.pc = "hook_url"]]
      [] th.pc = "hook_url" ->
           [task |-> IF ~Falsy(th.final_filename)
                     THEN [task_info EXCEPT !.download_url = FileUrl(th.final_filename)]
                     ELSE task_info,
            th |-> [th EXCEPT !.pc = "hook_percentage"]]
      [] th.pc = "hook_percentage" ->
           LET p == [task_info.progress EXCEPT !.percentage = 1000] IN
           [task |-> [task_info EXCEPT !.progress = p],
            th |-> [th EXCEPT !.new_progress_data = p, !.pc = "hook_progress"]]
      [] th.pc = "hook_error" ->
           [task |-> [task_info EXCEPT !.status = "error"],
            th |-> [th EXCEPT !.pc = "hook_message"]]
      [] th.pc = "hook_message" ->
           [task |-> [task_info EXCEPT !.error_message = HookErrorMessage],
            th |-> [th EXCEPT !.pc = "hook_progress"]]
      [] th.pc = "hook_progress" ->
           [task |-> [task_info EXCEPT !.progress = th.new_progress_data],
            th |-> [th EXCEPT !.pc = "done"]]

\* the statements of the critical sections of run_download_task
RunnerStatement(th, task_info, target_filename) ==
    CASE th.pc = "locked" ->
           [task |-> task_info,
            th |-> [th EXCEPT !.pc =
                      CASE th.call.op = "handler" -> "handler_status"
                        [] th.call.op = "downloading" -> "run_status"
                        [] th.call.op = "check" ->
                             IF ~CheckApplies(task_info) THEN "done"
                             ELSE IF target_filename # None /\ th.call.exists
                             THEN "check_finished" ELSE "check_error"]]
      [] th.pc = "run_status" ->
           [task |-> [task_info EXCEPT !.status = "downloading"],
            th |-> [th EXCEPT !.pc = "done"]]
      [] th.pc = "handler_status" ->
           [task |-> [task_info EXCEPT !.status = "error"],
            th |-> [th EXCEPT !.pc = "handler_message"]]
      [] th.pc = "handler_message" ->
           [task |-> [task_info EXCEPT !.error_message = HandlerMessage(th.call.e)],
            th |-> [th EXCEPT !.pc = "done"]]
      [] th.pc = "check_finished" ->
           [task |-> [task_info EXCEPT !.status = "finished"],
            th |-> [th EXCEPT !.pc = "check_filename"]]
      [] th.pc = "check_filename" ->
           [task |-> IF Falsy(task_info.filename)
                     THEN [task_info EXCEPT !.filename = target_filename] ELSE task_info,
            th |-> [th EXCEPT !.pc = "check_url"]]
      [] th.pc = "check_url" ->
           [task |-> IF Falsy(task_info.download_url)
                     THEN [task_info EXCEPT !.download_url = FileUrl(target_filename)]
                     ELSE task_info,
            th |-> [th EXCEPT !.pc = "check_percentage"]]
      [] th.pc = "check_percentage" ->
           [task |-> [task_info EXCEPT !.progress.percentage = 1000],
            th |-> [th EXCEPT !.pc = "done"]]
      [] th.pc = "check_error" ->
           [task |-> [task_info EXCEPT !.status = "error"],
            th |-> [th EXCEPT !.pc = "check_message"]]
      [] th.pc = "check_message" ->
           [task |-> [task_info EXCEPT !.error_message = CheckErrorMessage],
            th |-> [th EXCEPT !.pc = "done"]]

\* `with tasks_lock:` is entered
Acquire(i) ==
    /\ threads[i].pc = "start"
    /\ LockFree(tasks_lock)
    /\ tasks_lock' = i
    /\ threads' = [threads EXCEPT ![i].pc = "locked"]
    /\ UNCHANGED <<download_tasks, runner, stream, last>>

\* mutant of Release: ydl.download is called inside the `with tasks_lock:`
\* block that writes 'downloading', so that block never ends
ReleaseNotBeforeWorker(lock, i, th) ==
    IF th.pc = "done" /\ lock = i /\ th.call.op # "downloading" THEN 0 ELSE lock

\* the end of a `with tasks_lock:` block, by its last statement, a return or
\* an exception
Release(lock, i, th) == IF th.pc = "done" /\ lock = i THEN 0 ELSE lock

\* the next statement inside the lock; leaving the block releases the lock
Statement(i) ==
    /\ threads[i].pc \notin {"start", "done"}
    /\ LET r == IF threads[i].call.op = "hook"
                THEN HookStatement(threads[i], download_tasks[LockTask])
                ELSE RunnerStatement(threads[i], download_tasks[LockTask],
                                     runner[LockTask].target_filename)
       IN  /\ download_tasks' = [download_tasks EXCEPT ![LockTask] = r.task]
           /\ threads' = [threads EXCEPT ![i] = r.th]
           /\ tasks_lock' = Release(tasks_lock, i, r.th)
    /\ UNCHANGED <<runner, stream, last>>

InitLock ==
    /\ download_tasks = [t \in {LockTask} |-> LockInitialTask]
    /\ runner = [t \in {LockTask} |-> LockInitialRunner]
    /\ stream = NoStream
    /\ last = NoOp
    /\ tasks_lock = 0
    /\ threads \in [ThreadIds -> {NewThread(call) : call \in LockCalls}]

NextLock == \E i \in ThreadIds : Acquire(i) \/ Statement(i)

SpecLock == InitLock /\ [][NextLock]_vars

\* SpecRead: SpecLock with a stream that polls the task the threads update

\* mutant of LockedPoll: the copy taken without `with tasks_lock:`
UnlockedPoll(write_fails) == StreamPoll(write_fails)

\* with tasks_lock: copy.deepcopy(task_state_original); then the rest of the
\* pass, on the copy
LockedPoll(write_fails) == LockFree(tasks_lock) /\ StreamPoll(write_fails)

InitRead ==
    /\ download_tasks = [t \in {LockTask} |-> LockInitialTask]
    /\ runner = [t \in {LockTask} |-> LockInitialRunner]
    /\ stream = NewStream(LockTask)
    /\ last = NoOp
    /\ tasks_lock = 0
    /\ threads \in [ThreadIds -> {NewThread(call) : call \in LockCalls}]

NextRead ==
    \/ \E i \in ThreadIds : Acquire(i) \/ Statement(i)
    \/ \E write_fails \in BOOLEAN : LockedPoll(write_fails)
    \/ StreamWake

SpecRead == InitRead /\ [][NextRead]_vars

\* SpecReadFair: SpecRead with every thread and the stream scheduled fairly
ThreadProgress(i) == Acquire(i) \/ Statement(i)
ReaderProgress == (\E write_fails \in BOOLEAN : LockedPoll(write_fails)) \/ StreamWake

SpecReadFair ==
    SpecRead /\ WF_vars(ReaderProgress) /\ \A i \in ThreadIds : WF_vars(ThreadProgress(i))

----------------------------------------------------------------------------
\* Claims

Stored == DOMAIN download_tasks
IsTerminal(t) == download_tasks[t].status \in {"finished", "error"}

\* the order pending < fetching_info < preparing_download < downloading
\* < {finished, error} of the task states
Rank(status) ==
    CASE status = "pending" -> 0
      [] status = "fetching_info" -> 1
      [] status = "preparing_download" -> 2
      [] status = "downloading" -> 3
      [] status = "finished" -> 4
      [] status = "error" -> 4


\* C1: once a task's status is finished or error, no later step changes any
\* field of that task.
C1_TerminalTaskFrozen ==
    [][\A t \in Stored :
         IsTerminal(t) => t \in DOMAIN download_tasks' /\ download_tasks'[t] = download_tasks[t]]_vars

\* C2: in every reachable state of every task, download_url is non-null if and
\* only if status is finished.
C2_UrlIffFinished ==
    \A t \in Stored :
        (download_tasks[t].download_url # None) <=> (download_tasks[t].status = "finished")

\* C3: under fair scheduling every task a submit created eventually has status
\* finished or error with run_download_task ended, no exception having escaped.
C3_RunnerEndsTerminal ==
    \A t \in TaskIds :
        (t \in DOMAIN runner) ~>
            (t \in DOMAIN runner /\ runner[t].pc = "done" /\ t \in Stored /\ IsTerminal(t))

\* the worker returned without a final callback and the check finalised the task
C3_Witness ==
    \E t \in Stored :
        /\ runner[t].pc = "done" /\ IsTerminal(t)
        /\ last.op = "check" /\ last.task_id = t
        /\ download_tasks[t].error_message = CheckErrorMessage

\* C4: no step sets a task's status to a value of lower rank than its current
\* one, in the order pending < fetching_info < preparing_download < downloading
\* < {finished, error}.
C4_StatusNeverMovesBack ==
    [][\A t \in Stored :
         Rank(download_tasks'[t].status) >= Rank(download_tasks[t].status)]_vars

\* an exception handler has acted on a task a callback had finished
C4_Witness ==
    \E t \in Stored :
        /\ last.op = "handler" /\ last.task_id = t
        /\ download_tasks[t].status = "error"
        /\ download_tasks[t].download_url # None

\* C5: a downloading callback that arrives when the task is finished or error
\* leaves the task's snapshot as it was, for every payload.
C5_LateDownloadingIsNoOp ==
    [][(/\ last'.op = "hook" /\ last'.kind = "downloading"
        /\ last'.task_id \in Stored
        /\ IsTerminal(last'.task_id))
       => Serialize(download_tasks'[last'.task_id]) = Serialize(download_tasks[last'.task_id])]_vars

\* a downloading callback has arrived on a task in status error
C5_Witness ==
    /\ last.op = "hook" /\ last.kind = "downloading"
    /\ last.task_id \in Stored
    /\ download_tasks[last.task_id].status = "error"

\* C7: a submit whose source reference or format choice is empty or missing
\* answers HTTP 400 with success false, and changes neither the store nor the
\* set of runners.
C7_EmptyOrMissing(x) == x = None \/ x = ""

C7_BadSubmitRejected ==
    [][(/\ last'.op = "submit"
        /\ (~last'.has_body \/ C7_EmptyOrMissing(last'.video_url)
                            \/ C7_EmptyOrMissing(last'.format)))
       => (/\ last'.code = 400 /\ last'.success = FALSE
           /\ download_tasks' = download_tasks
           /\ runner' = runner)]_vars

\* a submit without a format was rejected while a task was in the store
C7_Witness ==
    /\ last.op = "submit" /\ last.code = 400
    /\ last.video_url = "u" /\ last.format = ""
    /\ Stored # {}

\* C8: a submit with both inputs present adds exactly one task, returns its id,
\* and until its runner takes a step that task is pending with zero progress
\* and null filename, download_url and error_message.
C8_IsFresh(task_info) ==
    /\ task_info.status = "pending"
    /\ task_info.progress.percentage = 0
    /\ task_info.progress.total_bytes = 0
    /\ task_info.progress.downloaded_bytes = 0
    /\ task_info.progress.speed = "" /\ task_info.progress.eta = ""
    /\ task_info.progress.total_bytes_string = ""
    /\ task_info.filename = None
    /\ task_info.download_url = None
    /\ task_info.error_message = None

C8_SubmitAddsPendingTask ==
    [][/\ (/\ last'.op = "submit" /\ last'.has_body
           /\ ~C7_EmptyOrMissing(last'.video_url) /\ ~C7_EmptyOrMissing(last'.format))
          => (/\ last'.success /\ last'.code = 200
              /\ last'.task_id \notin Stored
              /\ DOMAIN download_tasks' = Stored \cup {last'.task_id}
              /\ C8_IsFresh(download_tasks'[last'.task_id])
              /\ runner'[last'.task_id].pc = "start")
       /\ \A t \in DOMAIN runner' :
            runner'[t].pc = "start" => C8_IsFresh(download_tasks'[t])]_vars

\* a second task was added beside one whose runner is already downloading
C8_Witness ==
    /\ last.op = "submit" /\ last.success
    /\ Cardinality(Stored) = 2
    /\ \E t \in Stored : download_tasks[t].status = "downloading"

C10_IsTerminalEvent(ev) == ev.event = "message" /\ ev.data[1] \in {"finished", "error"}

C10_ClosesOnTerminalSnapshot ==
    [][(/\ stream.connected /\ stream.pc # "closed" /\ stream'.pc = "closed"
        /\ stream.task_id \in Stored)
       => (/\ Len(stream'.events) = Len(stream.events) + 1
           /\ C10_IsTerminalEvent(stream'.events[Len(stream'.events)])
           /\ \A i \in 1..Len(stream.events) : ~C10_IsTerminalEvent(stream.events[i]))]_vars

\* a connected stream closed on an error snapshot after earlier snapshots
C10_Witness ==
    /\ stream.pc = "closed" /\ stream.connected
    /\ Len(stream.events) >= 3
    /\ stream.events[Len(stream.events)].data[1] = "error"
    /\ stream.events[Len(stream.events)].event = "message"

\* one call applied to the task in one step, as the actions of Spec apply it
ApplyCall(task_info, call, target_filename) ==
    CASE call.op = "hook" ->
           HookCall([t \in {LockTask} |-> task_info], LockTask, call.d).tasks[LockTask]
      [] call.op = "handler" -> HandlerTask(task_info, call.e)
      [] call.op = "check" ->
           IF CheckApplies(task_info)
           THEN CheckTask(task_info, target_filename, call.exists) ELSE task_info
      [] call.op = "downloading" -> [task_info EXCEPT !.status = "downloading"]

\* the tasks that applying the calls of the threads in `rest` one at a time,
\* in any order, can leave
RECURSIVE SerialOutcomes(_, _)
SerialOutcomes(task_info, rest) ==
    IF rest = {} THEN {task_info}
    ELSE UNION {SerialOutcomes(ApplyCall(task_info, threads[i].call,
                                         LockInitialRunner.target_filename),
                               rest \ {i}) : i \in rest}

\* C6: concurrent updates of one task are serialised: no thread is inside an
\* update while another is, and when all have ended the stored task is the
\* result of applying the updates one at a time in some order.
C6_InUpdate(i) == threads[i].pc \notin {"start", "done"}

C6_UpdatesSerialised ==
    /\ \A i, j \in DOMAIN threads : (C6_InUpdate(i) /\ C6_InUpdate(j)) => i = j
    /\ (threads # <<>> /\ \A i \in DOMAIN threads : threads[i].pc = "done")
       => download_tasks[LockTask] \in SerialOutcomes(LockInitialTask, DOMAIN threads)

\* a finished callback and an exception handler both ran, the handler last
C6_Witness ==
    /\ threads # <<>>
    /\ \A i \in DOMAIN threads : threads[i].pc = "done"
    /\ \E i, j \in DOMAIN threads :
         threads[i].call.op = "hook" /\ threads[i].call.d.status = "finished"
         /\ threads[j].call.op = "handler"
    /\ download_tasks[LockTask].status = "error"
    /\ download_tasks[LockTask].download_url # None

\* C11: a stream whose client stays connected and whose task has reached
\* finished or error eventually emits a terminal snapshot and stops polling.
C11_StreamEndsAfterTerminal ==
    (/\ stream.pc \in {"poll", "sleep"} /\ stream.connected
     /\ stream.task_id \in Stored /\ IsTerminal(stream.task_id))
    ~> (\/ ~stream.connected
        \/ /\ stream.pc = "closed"
           /\ Len(stream.events) > 0
           /\ C10_IsTerminalEvent(stream.events[Len(stream.events)]))

\* a connected stream that was still polling when its task finished has closed
C11_Witness ==
    /\ stream.pc = "closed" /\ stream.connected
    /\ Len(stream.events) >= 2
    /\ stream.events[Len(stream.events)].event = "message"
    /\ stream.events[Len(stream.events)].data[1] = "finished"
    /\ stream.events[Len(stream.events) - 1].data[1] = "downloading"

\* C12: a stream that polls a task id absent from the store emits exactly one
\* not-found error event, emits nothing after it, and stops.
C12_NotFoundIsLast ==
    \A i \in 1..Len(stream.events) :
        stream.events[i] = NotFoundEvent
            => i = Len(stream.events) /\ stream.pc = "closed"

C12_NotFoundStops ==
    /\ []C12_NotFoundIsLast
    /\ [][(/\ stream.pc = "poll" /\ stream.connected
           /\ stream.task_id \notin Stored
           /\ last'.op = "stream_poll")
          => /\ stream'.pc = "closed"
             /\ stream'.events = Append(stream.events, NotFoundEvent)]_vars

\* the stream was opened before its id was stored, and the task stored later
\* is never sent on it
C12_Witness ==
    /\ stream.pc = "closed" /\ stream.connected
    /\ stream.events = <<NotFoundEvent>>
    /\ stream.task_id \in Stored
    /\ download_tasks[stream.task_id].status # "pending"

\* C13: a stream emits a snapshot only when its serialization differs from
\* the last one it emitted: no two consecutive events of the stream are equal,
\* and the first poll of an existing task always emits.
C13_NoRepeatedEvent ==
    \A i \in 1..(Len(stream.events) - 1) : stream.events[i] # stream.events[i + 1]

C13_EmitsDeltasOnly ==
    /\ []C13_NoRepeatedEvent
    /\ [][(/\ last'.op = "stream_poll" /\ stream.connected
           /\ stream.task_id \in Stored)
          => LET json_data == Serialize(download_tasks[stream.task_id])
             IN  /\ json_data # stream.last_sent
                     => stream'.events = Append(stream.events, DataEvent(json_data))
                 /\ json_data = stream.last_sent
                     => stream'.events = stream.events
                 /\ stream.last_sent = NothingSent
                     => Len(stream'.events) = 1]_vars

\* a connected stream has sent two different snapshots and its latest poll
\* found the task unchanged and sent nothing
C13_Witness ==
    /\ last.op = "stream_poll" /\ last.code = 0
    /\ stream.connected /\ stream.pc = "sleep"
    /\ Len(stream.events) >= 2
    /\ stream.last_sent = Serialize(download_tasks[stream.task_id])

\* the statuses and the percentages of the snapshots a stream has emitted
EventStatuses == [i \in 1..Len(stream.events) |-> stream.events[i].data[1]]
EventPercentages == [i \in 1..Len(stream.events) |-> stream.events[i].data[2][1]]

\* the stream of a connected client has closed on a task polled between
\* every two of its updates
C14_PolledToTheEnd ==
    /\ stream.pc = "closed" /\ stream.connected
    /\ stream.task_id \in Stored
    /\ \A i \in 1..Len(stream.events) : stream.events[i].event = "message"

C15_StreamStatusesAdvance ==
    \A i \in 1..(Len(stream.events) - 1) :
        (stream.events[i].event = "message" /\ stream.events[i + 1].event = "message")
            => Rank(stream.events[i].data[1]) <= Rank(stream.events[i + 1].data[1])

\* the stream missed fetching_info and preparing_download between two polls
C15_Witness ==
    /\ Len(stream.events) = 3
    /\ EventStatuses = <<"pending", "downloading", "error">>
    /\ stream.pc = "closed"

\* C16: after the client of a stream disconnects, the polling loop performs at
\* most one further poll of the store, whether or not the task changes: a poll
\* made for a client that is gone ends the loop.
C16_DisconnectStopsLoop ==
    [][(last'.op = "stream_poll" /\ ~stream.connected)
          => stream'.pc \in {"closed", "exited"}]_vars

\* C17: disconnecting or closing a stream never cancels or alters the runner:
\* no step of a stream changes a task or a runner, and with no stream open or
\* after the stream's client has gone the runner still takes all its steps and
\* the task reaches a terminal state.
C17_StreamOps == {"stream_open", "stream_poll", "stream_wake", "disconnect"}

C17_RunnerOutlivesStream ==
    /\ [][last'.op \in C17_StreamOps => UNCHANGED <<download_tasks, runner>>]_vars
    /\ \A t \in TaskIds :
          (t \in DOMAIN runner /\ ~stream.connected) ~>
              (t \in DOMAIN runner /\ runner[t].pc = "done" /\ t \in Stored /\ IsTerminal(t))

\* the client left after the pending snapshot, its stream ended on a failed
\* write, and the download went on to finished
C17_Witness ==
    /\ ~stream.connected /\ stream.pc = "exited"
    /\ EventStatuses = <<"pending">>
    /\ stream.task_id \in Stored /\ stream.task_id \in DOMAIN runner
    /\ runner[stream.task_id].pc = "done"
    /\ download_tasks[stream.task_id].status = "finished"

\* C18: after a worker that fires downloading callbacks at 0%, 50% and 100%
\* and a finished callback with filename "clip.mp4" has returned, the task's
\* snapshot has status finished, percentage 100, filename "clip.mp4",
\* download_url "/api/files/clip.mp4" and error_message null.
C18_EndToEndSnapshot ==
    \A t \in Stored :
        runner[t].pc \in {"check", "done"}
            => /\ download_tasks[t].status = "finished"
               /\ download_tasks[t].progress.percentage = 1000
               /\ download_tasks[t].filename = "clip.mp4"
               /\ download_tasks[t].download_url = "/api/files/clip.mp4"
               /\ download_tasks[t].error_message = None

\* the runner has ended after the four callbacks; the 50% callback was stored
\* on the way (a stream saw it)
C18_Witness ==
    /\ \E t \in Stored : runner[t].pc = "done" /\ download_tasks[t].status = "finished"
    /\ \E i \in 1..Len(stream.events) :
          /\ stream.events[i].event = "message"
          /\ stream.events[i].data[1] = "downloading"
          /\ stream.events[i].data[2][1] = 500

\* C19: while a task's status is downloading its stored progress.percentage
\* never decreases from one state to the next, whatever downloading callbacks
\* the worker delivers.
C19_PercentageNeverDecreases ==
    [][\A t \in Stored :
          (download_tasks[t].status = "downloading"
           /\ download_tasks'[t].status = "downloading")
              => download_tasks'[t].progress.percentage
                     >= download_tasks[t].progress.percentage]_vars

\* C20: in every reachable state of every task, error_message is non-null only
\* if status is error.
C20_MessageOnlyWithError ==
    \A t \in Stored :
        download_tasks[t].error_message # None => download_tasks[t].status = "error"

\* the hook reported an error and the consistency check has run after it
C20_Witness ==
    \E t \in Stored :
        /\ download_tasks[t].error_message = HookErrorMessage
        /\ download_tasks[t].status = "error"
        /\ runner[t].pc = "done"
        /\ last.op = "check" /\ last.task_id = t

\* C21: in every reachable state of every task, progress.percentage lies
\* between 0 and 100 and total_bytes and downloaded_bytes are integers >= 0,
\* whatever downloading callbacks the worker delivers.
C21_ProgressInRange ==
    \A t \in Stored :
        /\ download_tasks[t].progress.percentage \in 0..1000
        /\ download_tasks[t].progress.total_bytes >= 0
        /\ download_tasks[t].progress.downloaded_bytes >= 0

\* C22: a file request whose name resolves outside the download directory
\* gets a not-found response, never serves a file, and leaves the task store
\* unchanged.
C22_EscapingNameNotFound ==
    [][(last'.op = "get_file" /\ ~InsideDownloadFolder(SafePath(last'.kind)))
          => /\ last'.code = 404
             /\ ~last'.success
             /\ UNCHANGED download_tasks]_vars

\* C23: when the worker call has returned normally, the consistency check
\* makes a non-terminal task finished with filename, download_url and
\* percentage 100 if the expected file exists and error with an error_message
\* otherwise, and it changes nothing of a task that is already terminal.
C23_CheckFinalises ==
    [][last'.op = "check" /\ last'.task_id \in Stored
          => LET t == last'.task_id
                 after == download_tasks'[t]
             IN  IF IsTerminal(t)
                 THEN after = download_tasks[t]
                 ELSE IF last'.kind = "exists"
                 THEN /\ after.status = "finished"
                      /\ after.filename # None
                      /\ after.download_url # None
                      /\ after.progress.percentage = 1000
                 ELSE /\ after.status = "error"
                      /\ after.error_message # None]_vars

\* the worker returned after a partial downloading callback, without a final
\* one, and the check found the file
C23_Witness ==
    /\ last.op = "check" /\ last.kind = "exists"
    /\ last.task_id \in Stored
    /\ download_tasks[last.task_id].status = "finished"
    /\ download_tasks[last.task_id].download_url = FileUrl(runner[last.task_id].target_filename)
    /\ download_tasks[last.task_id].progress.downloaded_bytes = 1
    /\ download_tasks[last.task_id].progress.total_bytes = MaxBytes

\* C24: no invocation of ProgressHook raises into the worker: for every callback
\* payload the call returns normally.
C24_HookNeverRaises ==
    [][last'.op = "hook" => last'.code = 0]_vars

\* C25: an exception of the metadata resolution or of the worker call is caught
\* in run_download_task and recorded as status error with the message of its
\* class: missing ffmpeg, else unsupported URL, else video unavailable, else
\* HTTP 429, else the generic message with at most the first 150 characters of
\* the text; the server-error message for an exception of another type.
C25_ExpectedMessage(e) ==
    IF e.type # "DownloadError" THEN "server: unexpected error"
    ELSE CASE e.text = ErrFfmpeg -> "download: ffmpeg missing"
           [] e.text = ErrFfmpegUnsupported -> "download: ffmpeg missing"
           [] e.text = ErrUnsupported -> "download: unsupported url"
           [] e.text = ErrUnsupportedUnavailable -> "download: unsupported url"
           [] e.text = ErrUnavailable -> "download: video unavailable"
           [] e.text = ErrUnavailable429 -> "download: video unavailable"
           [] e.text = Err429 -> "download: too many requests"
           [] e.text = ErrShort -> "download: ERROR: short..."
           [] e.text = ErrLong -> "download: ERROR: long[:150]..."

C25_ExceptionsClassified ==
    [][\A t \in Stored :
          (runner[t].pc = "except" /\ runner'[t].pc # "except")
              => /\ last'.op = "handler"
                 /\ runner'[t].pc = "done"
                 /\ download_tasks'[t].status = "error"
                 /\ download_tasks'[t].error_message = C25_ExpectedMessage(runner[t].exc)]_vars

\* ydl.download raised a DownloadError that mentions both an unsupported URL and
\* an unavailable video
C25_Witness ==
    \E t \in Stored :
        /\ last.op = "handler" /\ last.task_id = t
        /\ runner[t].pc = "done"
        /\ runner[t].exc = DownloadError(ErrUnsupportedUnavailable)
        /\ download_tasks[t].status = "error"
        /\ download_tasks[t].error_message = "download: unsupported url"
        /\ download_tasks[t].progress.total_bytes > 0

\* C26: a finished callback on a non-terminal task sets, in one update, status
\* to finished, filename to the callback's filename when it provides one and
\* to the task's recorded filename otherwise, download_url to "/api/files/"
\* followed by the base name of that filename, and percentage to 100.
C26_UrlOf(filename) ==
    CASE filename = "/srv/downloads/clip.mp4" -> "/api/files/clip.mp4"
      [] filename = "video [id].mp4" -> "/api/files/video [id].mp4"
      [] filename = "video [id].mp3" -> "/api/files/video [id].mp3"

C26_FinishedCallback ==
    [][\A t \in Stored, d \in Payloads :
          (d.status = "finished" /\ ~IsTerminal(t) /\ HookCallback(t, d))
              => LET before == download_tasks[t]
                     after == download_tasks'[t]
                     name == IF d.filename # Missing THEN d.filename ELSE before.filename
                 IN  /\ after.status = "finished"
                     /\ after.filename = name
                     /\ after.download_url = C26_UrlOf(name)
                     /\ after.progress = [before.progress EXCEPT !.percentage = 1000]
                     /\ after.error_message = before.error_message
                     /\ last'.code = 0]_vars

\* a finished callback without a file name arrived after a partial downloading
\* callback: the recorded name is kept and the percentage forced to 100
C26_Witness ==
    \E t \in Stored :
        /\ last.op = "hook" /\ last.kind = "finished" /\ last.task_id = t
        /\ download_tasks[t].status = "finished"
        /\ download_tasks[t].filename = runner[t].target_filename
        /\ download_tasks[t].download_url = C26_UrlOf(runner[t].target_filename)
        /\ download_tasks[t].progress.percentage = 1000
        /\ download_tasks[t].progress.downloaded_bytes < download_tasks[t].progress.total_bytes

\* C27: a downloading callback on a non-terminal task sets status to
\* downloading and replaces progress with values from the payload: percentage
\* downloaded*100/total (to the stored precision of one decimal) when the total
\* (total_bytes, else the estimate) is greater than zero and 0 otherwise, the
\* speed, eta and byte-count fields copied; filename, download_url and
\* error_message are left unchanged.
C27_TotalOf(d) ==
    IF d.total_bytes > 0 THEN d.total_bytes
    ELSE IF d.total_bytes_estimate > 0 THEN d.total_bytes_estimate
    ELSE 0

C27_DownloadedOf(d) == IF d.downloaded_bytes = MissingInt THEN 0 ELSE d.downloaded_bytes

C27_DownloadingCallback ==
    [][\A t \in Stored, d \in Payloads :
          (d.status = "downloading" /\ ~IsTerminal(t) /\ HookCallback(t, d))
              => LET before == download_tasks[t]
                     after == download_tasks'[t]
                     total == C27_TotalOf(d)
                     downloaded == C27_DownloadedOf(d)
                     exact == after.progress.percentage * total - 1000 * downloaded
                 IN  /\ after.status = "downloading"
                     /\ after.progress.total_bytes = total
                     /\ after.progress.downloaded_bytes = downloaded
                     /\ (total > 0 /\ downloaded >= 0)
                            => (2 * exact <= total /\ -2 * exact <= total)
                     /\ total = 0 => after.progress.percentage = 0
                     /\ after.progress.speed = d.speed_str
                     /\ after.progress.eta = d.eta_str
                     /\ after.progress.total_bytes_string = d.total_bytes_str
                     /\ after.filename = before.filename
                     /\ after.download_url = before.download_url
                     /\ after.error_message = before.error_message]_vars

\* C28: an error callback on a non-terminal task sets status to error and
\* error_message to the hook's fixed generic message, and leaves filename,
\* download_url and progress unchanged.
C28_ErrorCallback ==
    [][\A t \in Stored, d \in Payloads :
          (d.status = "error" /\ ~IsTerminal(t) /\ HookCallback(t, d))
              => LET before == download_tasks[t]
                     after == download_tasks'[t]
                 IN  /\ after.status = "error"
                     /\ after.error_message = "hook: progress hook failed"
                     /\ after.filename = before.filename
                     /\ after.download_url = before.download_url
                     /\ after.progress = before.progress
                     /\ last'.code = 0]_vars

\* the error callback arrived after a partial downloading callback
C28_Witness ==
    \E t \in Stored :
        /\ last.op = "hook" /\ last.kind = "error" /\ last.task_id = t
        /\ download_tasks[t].status = "error"
        /\ download_tasks[t].error_message = "hook: progress hook failed"
        /\ download_tasks[t].progress.downloaded_bytes = 1
        /\ download_tasks[t].filename # None
        /\ download_tasks[t].download_url = None

\* C29: no reader observes a torn task record: in every snapshot a stream
\* reads, status error implies a non-null error_message, and status finished
\* implies non-null filename and download_url and percentage 100, under every
\* interleaving of the polls with the statements of the hook, the runner and
\* the exception handlers.
C29_Whole(json_data) ==
    /\ json_data[1] = "error" => json_data[5] # None
    /\ json_data[1] = "finished"
           => /\ json_data[3] # None
              /\ json_data[4] # None
              /\ json_data[2][1] = 1000

C29_NoTornSnapshot ==
    \A i \in 1..Len(stream.events) :
        stream.events[i].event = "message" => C29_Whole(stream.events[i].data)

\* the stream read the task before and after a finished callback while another
\* thread was waiting for the lock or had not started
C29_Witness ==
    /\ Len(stream.events) = 2
    /\ EventStatuses = <<"downloading", "finished">>
    /\ stream.pc = "closed"
    /\ \E i \in ThreadIds : threads[i].pc = "start"

\* C30: no step of a stream (open, poll, emit, disconnect, close) changes any
\* field of any task in the store, and a task, once created, is changed only by
\* the hook and the runner.
C30_WriterOps ==
    {"fetching_info", "preparing_download", "downloading", "hook", "check", "handler"}

C30_StreamOnlyReads ==
    [][\A t \in Stored :
          /\ last'.op \in C17_StreamOps
                => t \in DOMAIN download_tasks' /\ download_tasks'[t] = download_tasks[t]
          /\ (t \notin DOMAIN download_tasks' \/ download_tasks'[t] # download_tasks[t])
                => last'.op \in C30_WriterOps /\ last'.task_id = t]_vars

\* the stream has sent a terminal snapshot and closed, and the task it read is
\* still stored as it was sent
C30_Witness ==
    /\ last.op = "stream_poll" /\ last.code = 1
    /\ stream.pc = "closed" /\ stream.task_id \in Stored
    /\ IsTerminal(stream.task_id)
    /\ stream.last_sent = Serialize(download_tasks[stream.task_id])

\* C31: the runner records the target filename in the step that sets status
\* to preparing_download: in every reachable state filename is null while
\* status is pending or fetching_info, and non-null while status is
\* preparing_download or downloading.
C31_FilenameWithPreparing ==
    \A t \in Stored :
        /\ download_tasks[t].status \in {"pending", "fetching_info"}
               => download_tasks[t].filename = None
        /\ download_tasks[t].status \in {"preparing_download", "downloading"}
               => download_tasks[t].filename # None

\* the runner has just stored preparing_download together with the mp3 name
C31_Witness ==
    \E t \in Stored :
        /\ last.op = "preparing_download" /\ last.task_id = t
        /\ download_tasks[t].status = "preparing_download"
        /\ download_tasks[t].filename = "video [id].mp3"

\* the operations that write to a task
WriterOps ==
    {"fetching_info", "preparing_download", "downloading", "hook", "check", "handler"}

\* C32: when a task id is absent from the store, a hook callback for it, every
\* runner step for it and both exception handlers are no-ops that raise
\* nothing: no record is created for the id and no other task is changed.
C32_AbsentIsNoOp ==
    [][\A t \in DOMAIN runner \ Stored :
          (last'.task_id = t /\ last'.op \in WriterOps)
              => /\ download_tasks' = download_tasks
                 /\ last'.code = 0
                 /\ runner'[t].pc \notin {"except", "escaped"}]_vars

\* a callback arrived for a task that was cleared during its download, while
\* another task is stored
C32_Witness ==
    /\ last.op = "hook" /\ last.kind = "finished"
    /\ last.task_id \in DOMAIN runner /\ last.task_id \notin Stored
    /\ runner[last.task_id].pc = "download"
    /\ \E u \in Stored : download_tasks[u].status = "downloading"

\* C33: no operation removes a task from the store: an id a submit has created
\* stays stored in every later state, so a stream never emits the not-found
\* event for an id that is stored.
C33_TasksAreKept ==
    [][/\ Stored \subseteq DOMAIN download_tasks'
       /\ (stream.task_id \in Stored /\ Len(stream'.events) > Len(stream.events))
              => stream'.events[Len(stream'.events)] # NotFoundEvent]_vars

\* a stream opened on a submitted id followed the task from pending to the
\* error a handler stored, and closed on it
C33_Witness ==
    /\ stream.pc = "closed" /\ stream.task_id \in Stored
    /\ Len(stream.events) >= 2
    /\ EventStatuses[1] = "pending"
    /\ EventStatuses[Len(stream.events)] = "error"
    /\ runner[stream.task_id].exc # NoExc
    /\ runner[stream.task_id].pc = "done"

\* C34: the terminal snapshot a stream delivers as its last event equals the
\* task's final state: after the stream has closed on a finished or error
\* snapshot, the stored task never holds a status, download_url or
\* error_message different from that snapshot.
C34_LastSnapshotIsFinal ==
    (/\ stream.pc = "closed" /\ stream.task_id \in Stored
     /\ Len(stream.events) > 0
     /\ C10_IsTerminalEvent(stream.events[Len(stream.events)]))
        => LET json_data == stream.events[Len(stream.events)].data
               task_info == download_tasks[stream.task_id]
           IN  /\ task_info.status = json_data[1]
               /\ task_info.download_url = json_data[4]
               /\ task_info.error_message = json_data[5]

\* C35: the system never deadlocks on the task lock: the lock is held only
\* inside a critical section, never across the worker call, a sleep or an emit,
\* so every hook callback, every runner section and every stream poll acquires
\* the lock and leaves it in a finite number of steps.
C35_HeldInsideSection ==
    tasks_lock # 0 => threads[tasks_lock].pc \notin {"start", "done"}

C35_NoDeadlock ==
    /\ []C35_HeldInsideSection
    /\ \A i \in ThreadIds : (threads[i].pc = "start") ~> (threads[i].pc = "done")
    /\ (stream.pc = "poll") ~> (stream.pc # "poll")

\* a hook callback has run to its end after the runner's section that writes
\* 'downloading', and the stream has polled after both
C35_Witness ==
    /\ \E i, j \in ThreadIds :
          /\ threads[i].call.op = "downloading" /\ threads[i].pc = "done"
          /\ threads[j].call.op = "hook" /\ threads[j].pc = "done"
    /\ tasks_lock = 0
    /\ stream.pc = "closed"
    /\ last.op = "stream_poll"

\* C36: tasks are isolated from one another: a hook callback, a runner step,
\* a consistency check or an exception handler for one task changes no field
\* of any other task, its progress record included.
C36_TasksIsolated ==
    [][\A t \in Stored :
          (last'.op \in WriterOps /\ last'.task_id # t)
              => download_tasks'[t] = download_tasks[t]]_vars

\* a finished callback has been stored for one task while another task, still
\* with its initial progress, is being fetched
C36_Witness ==
    \E a, b \in Stored :
        /\ a # b
        /\ last.op = "hook" /\ last.kind = "finished" /\ last.task_id = a
        /\ download_tasks[a].status = "finished"
        /\ download_tasks[a].progress.percentage = 1000
        /\ download_tasks[b].status = "fetching_info"
        /\ download_tasks[b].progress = InitialProgress

\* C37: a callback of kind finished or error that arrives when the task is
\* already terminal changes nothing and does not raise: finished after error
\* does not make the task finished, error after finished does not make it error.
C37_LateTerminalIsNoOp ==
    [][\A t \in Stored, d \in Payloads :
          (d.status \in {"finished", "error"} /\ IsTerminal(t) /\ HookCallback(t, d))
              => /\ download_tasks' = download_tasks
                 /\ last'.code = 0]_vars

\* an error callback has arrived on a finished task, or a finished callback on
\* a task in status error
C37_Witness ==
    /\ last.op = "hook"
    /\ last.task_id \in Stored
    /\ \/ /\ last.kind = "error"
          /\ download_tasks[last.task_id].status = "finished"
       \/ /\ last.kind = "finished"
          /\ download_tasks[last.task_id].status = "error"

\* C38: every snapshot a stream emits equals the state the stored task holds
\* at the instant of the poll that emits it, and it is put after the snapshots
\* emitted before: a step either leaves the emitted sequence as it was or
\* appends the snapshot of the current stored state (the not-found event when
\* the id is not stored), so the emitted sequence is a subsequence of the
\* task's state history.
C38_SnapshotsFollowHistory ==
    [][\/ last'.op = "stream_open" /\ stream'.events = <<>>
       \/ stream'.events = stream.events
       \/ /\ last'.op = "stream_poll"
          /\ stream.task_id \in Stored
          /\ stream'.events =
                 Append(stream.events, DataEvent(Serialize(download_tasks[stream.task_id])))
       \/ /\ last'.op = "stream_poll"
          /\ stream.task_id \notin Stored
          /\ stream'.events = Append(stream.events, NotFoundEvent)]_vars

\* the stream sent the pending snapshot, the task went through fetching_info
\* unseen, and the next poll sent the state stored at that instant
C38_Witness ==
    /\ last.op = "stream_poll" /\ last.code = 1
    /\ stream.task_id \in Stored
    /\ Len(stream.events) = 2
    /\ stream.events[1].data[1] = "pending"
    /\ stream.events[2].data[1] \in {"preparing_download", "downloading", "error"}
    /\ stream.events[2] = DataEvent(Serialize(download_tasks[stream.task_id]))

\* C39: a finished callback changes only the percentage inside progress:
\* speed, eta, total_bytes, total_bytes_string and downloaded_bytes keep the
\* values they had before the callback.
C39_KeptFields == {"speed", "eta", "total_bytes", "total_bytes_string", "downloaded_bytes"}

C39_FinishedKeepsProgress ==
    [][\A t \in Stored, d \in Payloads :
          (d.status = "finished" /\ HookCallback(t, d))
              => /\ \A f \in C39_KeptFields :
                        download_tasks'[t].progress[f] = download_tasks[t].progress[f]
                 /\ DOMAIN download_tasks'[t].progress = DOMAIN download_tasks[t].progress
                 /\ ~IsTerminal(t) => download_tasks'[t].progress.percentage = 1000]_vars

\* a finished callback has arrived after a downloading callback had recorded a
\* speed, an eta and byte counts: they are still there, next to 100%
C39_Witness ==
    \E t \in Stored :
        /\ last.op = "hook" /\ last.kind = "finished" /\ last.task_id = t
        /\ download_tasks[t].status = "finished"
        /\ download_tasks[t].progress.percentage = 1000
        /\ download_tasks[t].progress.speed \notin {"", "N/A"}
        /\ download_tasks[t].progress.eta \notin {"", "N/A"}
        /\ download_tasks[t].progress.total_bytes > 0
        /\ download_tasks[t].progress.total_bytes_string \notin {"", "N/A"}

\* C40: a stream opened on a task that is already finished or error emits
\* exactly one event, the terminal snapshot, and closes without sleeping or
\* polling again: the stream starts with nothing sent, its first poll of a
\* terminal task sends that task's snapshot and closes, and a closed stream
\* takes no further step.
C40_TerminalAtOpen ==
    [][/\ (last'.op = "stream_open" /\ stream'.task_id \in Stored
           /\ IsTerminal(stream'.task_id))
          => /\ stream'.pc = "poll" /\ stream'.connected
             /\ stream'.events = <<>> /\ stream'.last_sent = NothingSent
       /\ (/\ last'.op = "stream_poll" /\ stream.connected
           /\ stream.events = <<>>
           /\ stream.task_id \in Stored /\ IsTerminal(stream.task_id))
          => /\ stream'.pc = "closed"
             /\ stream'.events = <<DataEvent(Serialize(download_tasks[stream.task_id]))>>
       /\ stream.pc = "closed" => stream' = stream]_vars

\* the runner had ended with an error before the only poll of the stream,
\* which sent one event and closed
C40_Witness ==
    /\ last.op = "stream_poll" /\ last.code = 1
    /\ stream.pc = "closed" /\ stream.connected
    /\ stream.task_id \in Stored
    /\ Len(stream.events) = 1
    /\ stream.events[1] = DataEvent(Serialize(download_tasks[stream.task_id]))
    /\ download_tasks[stream.task_id].status = "error"
    /\ download_tasks[stream.task_id].error_message # None

====
